---- MODULE Spec2Model ----
(***************************************************************************)
(* The single-flight memoising cache of cache.py: the decorator `cache`,   *)
(* its three backing mappings (dict, lru.LRU, ExpiringCache), the tasks it *)
(* creates for the wrapped coroutine function and the callers that await   *)
(* the tasks it returns.  And the decorator `lock` of locks.py with the    *)
(* asyncio.Lock objects it keeps per namespace and resource id.            *)
(***************************************************************************)
EXTENDS Integers, Sequences, FiniteSets, TLC

\* ------------------------------------------------------------------ bounds
\* Tasks (producer executions) that exist at the same time.
MaxTasks == 2
\* Coroutines that await tasks of the cache at the same time.
NumCallers == 2
\* Last reading of time.monotonic().
MaxTime == 2
\* Value at which the hit and miss counters of the LRU stop counting: a
\* counter that shows MaxCount has seen MaxCount lookups or more.
MaxCount == 1
\* Coroutines that are inside lock-decorated functions at the same time.
NumCoros == 3

\* Holders and waiters of the shared event, and how deep a holder nests.
NumHolders == 2
MaxDepth == 2
NumWaiters == 3

\* Callers of Config methods.
NumConfigCallers == 2

\* The last date, as an ordinal.
MaxOrdinal == 21

Handles == 1..MaxTasks

\* maxsize arguments the cache is constructed with: capacities of the LRU,
\* seconds of the ExpiringCache.
Capacities == {1, 2}
Ttls == {1}

\* --------------------------------------------------------- argument values
\* A Python value as far as _true_repr reads it: its kind, the text its
\* repr() is built from (digits, string content, qualified class name) and
\* its identity.
IntVal(digits) == [kind |-> "int", text |-> digits, id |-> 0]
StrVal(chars) == [kind |-> "str", text |-> chars, id |-> 0]
ObjVal(cls, ident) == [kind |-> "obj", text |-> cls, id |-> ident]

\* repr() of a str: the content in single quotes.
StrRepr(chars) == <<"'">> \o chars \o <<"'">>

\* Variant of _true_repr: object.__repr__ itself, which shows the identity.
_true_repr_identity(o) ==
    IF o.kind = "obj" THEN <<"<">> \o o.text \o <<" at ", ToString(o.id), ">">>
    ELSE IF o.kind = "str" THEN StrRepr(o.text)
    ELSE o.text

\* _true_repr: a class that keeps object.__repr__ is shown as <module.name>,
\* anything else by its own repr().
_true_repr(o) ==
    IF o.kind = "obj" THEN <<"<">> \o o.text \o <<">">>
    ELSE IF o.kind = "str" THEN StrRepr(o.text)
    ELSE o.text

\* f"{func.__module__}.{func.__name__}" of the decorated function.
FuncName == <<"m", ".", "f">>

\* Variant of IgnoredNames: no keyword is skipped.
IgnoredNames_none == {}

\* The keyword names _make_key skips.
IgnoredNames == {<<"c","o","n","n","e","c","t","i","o","n">>, <<"p","o","o","l">>}

RECURSIVE Join(_)
\* ":".join(parts)
Join(parts) ==
    IF Len(parts) = 0 THEN <<>>
    ELSE IF Len(parts) = 1 THEN parts[1]
    ELSE parts[1] \o <<":">> \o Join(Tail(parts))

RECURSIVE KwargParts_names_only(_)
\* Variant of KwargParts: only the names of the keywords are appended.
KwargParts_names_only(kwargs) ==
    IF Len(kwargs) = 0 THEN <<>>
    ELSE IF kwargs[1][1] \in IgnoredNames THEN KwargParts_names_only(Tail(kwargs))
    ELSE <<_true_repr(StrVal(kwargs[1][1]))>> \o KwargParts_names_only(Tail(kwargs))

RECURSIVE KwargParts(_)
\* The components the loop over kwargs.items() appends, in call order.
KwargParts(kwargs) ==
    IF Len(kwargs) = 0 THEN <<>>
    ELSE IF kwargs[1][1] \in IgnoredNames THEN KwargParts(Tail(kwargs))
    ELSE <<_true_repr(StrVal(kwargs[1][1])), _true_repr(kwargs[1][2])>>
             \o KwargParts(Tail(kwargs))

\* Variant of _make_key: the keywords are appended whatever ignore_kwargs is.
_make_key_with_kwargs(args, kwargs, ignoreKwargs) ==
    Join(<<FuncName>>
         \o [i \in 1..Len(args) |-> _true_repr(args[i])]
         \o KwargParts(kwargs))

\* _make_key of the cache constructed with ignore_kwargs = ignoreKwargs.
_make_key(args, kwargs, ignoreKwargs) ==
    Join(<<FuncName>>
         \o [i \in 1..Len(args) |-> _true_repr(args[i])]
         \o (IF ignoreKwargs THEN <<>> ELSE KwargParts(kwargs)))

\* ------------------------------------------------------------------ inputs
Call(args, kwargs) == [args |-> args, kwargs |-> kwargs]

\* The calls issued to the decorated function: f(1), f(12), f(2) and
\* f(1, pool=<object>).
Calls ==
    { Call(<<IntVal(<<"1">>)>>, <<>>),
      Call(<<IntVal(<<"1", "2">>)>>, <<>>),
      Call(<<IntVal(<<"2">>)>>, <<>>),
      Call(<<IntVal(<<"1">>)>>, << <<<<"p","o","o","l">>, ObjVal(<<"m", ".", "C">>, 1)>> >>) }

\* The calls the awaiting callers issue: f(1) and f(1, pool=<object>).
CallerCalls ==
    { Call(<<IntVal(<<"1">>)>>, <<>>),
      Call(<<IntVal(<<"1">>)>>, << <<<<"p","o","o","l">>, ObjVal(<<"m", ".", "C">>, 1)>> >>) }

\* Two instances of a class m.C that keeps object.__repr__.
Instances == {ObjVal(<<"m", ".", "C">>, 1), ObjVal(<<"m", ".", "C">>, 2)}

\* f(o) with an instance as the only argument.
CallInstance(o) == Call(<<o>>, <<>>)

\* f(1, name=value)
CallNamed(name, value) == Call(<<IntVal(<<"1">>)>>, << <<name, value>> >>)

\* f(1, name1=value1, name2=value2), the keywords in this order.
CallNamed2(name1, value1, name2, value2) ==
    Call(<<IntVal(<<"1">>)>>, << <<name1, value1>>, <<name2, value2>> >>)

\* The keywords the calls pass a connection or a pool with.
HandleNames == {<<"c","o","n","n","e","c","t","i","o","n">>, <<"p","o","o","l">>}

\* The values of the keyword x.
XValues == {StrVal(<<"a">>), StrVal(<<"b">>)}

\* The calls that exercise the key derivation: f(<instance>),
\* f(1, connection=<instance>), f(1, pool=<instance>), f(1, x='a'),
\* f(1, x='b') and f(1, 'x', 'a').
KeyCalls ==
    {CallInstance(o) : o \in Instances}
    \cup {CallNamed(name, o) : name \in HandleNames, o \in Instances}
    \cup {CallNamed(<<"x">>, v) : v \in XValues}
    \cup {Call(<<IntVal(<<"1">>), StrVal(<<"x">>), StrVal(<<"a">>)>>, <<>>)}

\* The arguments of invalidate_containing.
Substrings ==
    { <<"1">>, <<"1", "2">>, <<"m", ".", "f">> }

\* `sub in key` of two str.
IsSubstring(sub, key) ==
    \E i \in 0..(Len(key) - Len(sub)) :
        \A j \in 1..Len(sub) : key[i + j] = sub[j]

\* ------------------------------------------------------------------- state
VARIABLES
    strategy,       \* Strategy the cache was constructed with
    maxsize,        \* maxsize argument: LRU capacity, or ExpiringCache seconds
    ignore_kwargs,  \* ignore_kwargs argument
    now,            \* time.monotonic()
    cache,          \* internal_cache: sequence of entries, see below
    tasks,          \* the task objects asyncio.create_task returned, by handle
    stats,          \* <<hits, misses>> the LRU has counted
    lock_dicts,     \* locks.__lock_dicts: the lock of each namespace and id
    coros,          \* the calls of lock-decorated functions, by coroutine
    shared_event,   \* a locks.SharedEvent: _active_count and _event
    event_users,    \* the holders and the waiters of shared_event
    config,         \* an async_config.Config: _db and lock
    config_file,    \* the file at Config.path
    config_calls,   \* the load task and the calls of Config methods
    previous_weekday \* a call of time.resolve_previous_weekday

vars == <<strategy, maxsize, ignore_kwargs, now, cache, tasks, stats,
          lock_dicts, coros, shared_event, event_users,
          config, config_file, config_calls, previous_weekday>>

\* The state of the cache.
cachevars == <<strategy, maxsize, ignore_kwargs, now, cache, tasks, stats>>

\* The state of the lock decorators, of the shared event and of the Config.
lockvars == <<lock_dicts, coros>>
eventvars == <<shared_event, event_users>>
configvars == <<config, config_file, config_calls>>

\* ------------------------------------------------------------ locks: state
Coros == 1..NumCoros
Namespaces == {"a", "b"}
ResourceIds == {1, 2}

\* The key of a lock: __lock_dicts[namespace][id_].
LockKey(ns, id) == <<ns, id>>
LockKeys == {LockKey(ns, id) : ns \in Namespaces, id \in ResourceIds}

\* An asyncio.Lock: _locked and _waiters, the coroutines whose futures are
\* queued in acquire().  present tells whether the WeakValueDictionary still
\* holds the lock: it does as long as some coroutine refers to it.
NewLock == [present |-> TRUE, locked |-> FALSE, waiters |-> <<>>]
NoLock == [present |-> FALSE, locked |-> FALSE, waiters |-> <<>>]

\* A coroutine running wrapper of a lock-decorated function: where it is
\* ("idle" outside, "resolving" at `await id_`, "waiting" on its future in
\* acquire(), "woken" once release() has set the future, "body" inside the
\* decorated function), namespace and id of its call, and how its last
\* call ended.
Idle(result) == [pc |-> "idle", ns |-> "", id |-> 0, result |-> result]

\* How a call ended: not at all yet, with what the body returned or raised,
\* with None because the lock was taken, or with the error of errors.py,
\* which keeps the resource type and id it was raised with.
Ended(kind) == [kind |-> kind, type |-> "", id |-> 0]
LockedResourceError(resource_type, resource_id) ==
    [kind |-> "LockedResourceError", type |-> resource_type, id |-> resource_id]

At(pc, ns, id) == [pc |-> pc, ns |-> ns, id |-> id, result |-> Ended("")]

InitLocks ==
    /\ lock_dicts = [k \in LockKeys |-> NoLock]
    /\ coros = [p \in Coros |-> Idle(Ended(""))]

\* ----------------------------------------------------- SharedEvent: state
Holders == 1..NumHolders
EventWaiters == 1..NumWaiters

\* SharedEvent.__init__: no active holder and the event set.
SharedEvent == [_active_count |-> 0, _event |-> TRUE]

\* The users of the event: how many `with` blocks each holder is inside,
\* and where each caller of wait() is ("idle" outside, "waiting" on the
\* future Event.wait() queued, "released" once Event.set() has set it).
InitEvent ==
    /\ shared_event = SharedEvent
    /\ event_users = [holders |-> [h \in Holders |-> 0],
                      waiters |-> [w \in EventWaiters |-> "idle"]]

\* ---------------------------------------------------------- Config: state
DbKeys == {"k1", "k2"}
DbValues == {1, 2}

\* A dict with keys in DbKeys: Missing marks a key the dict does not hold.
Missing == 0
EmptyDict == [k \in DbKeys |-> Missing]

\* The file at path: absent, or the text to_json wrote for a dict.
NoFile == [exists |-> FALSE, text |-> EmptyDict]
to_json(db) == [exists |-> TRUE, text |-> db]
from_json(file) == file.text

\* Config.load_from_file: the dict of the file, {} when there is none.
load_from_file(file) == IF file.exists THEN from_json(file) ELSE EmptyDict

\* Config.get(key) with the default None, which Missing stands for.
get(db, key) == db[key]

\* The load task is call 0, the callers of put, remove and save are the
\* others.  A call is "idle" before it is made, "created" for the load task
\* that has not run yet, "waiting" and "woken" in Lock.acquire(), "running"
\* while the executor job is pending, "finished" once the job is done and
\* the coroutine has not resumed, "done" after it returned.
ConfigCallers == 1..NumConfigCallers
LoadTask == 0
ConfigCall(pc, op, key, value) == [pc |-> pc, op |-> op, key |-> key, value |-> value]
NoConfigCall == ConfigCall("idle", "", "", Missing)

\* Config.__init__ over each file the directory may hold: load_later
\* creates the load task and leaves _db empty, otherwise the file is read
\* at once.
Config(file, load_later) ==
    [_db |-> IF load_later THEN EmptyDict ELSE load_from_file(file),
     lock |-> NewLock]

InitialFiles == {NoFile} \cup {to_json([EmptyDict EXCEPT !["k1"] = v]) : v \in DbValues}

\* A Config constructed in the event loop with no file and no deferred load.
InitStore ==
    /\ config_file = NoFile
    /\ config = Config(NoFile, FALSE)
    /\ config_calls = [c \in {LoadTask} \cup ConfigCallers |->
                          IF c = LoadTask THEN ConfigCall("done", "load", "", Missing)
                          ELSE NoConfigCall]

\* ------------------------------------------------- previous weekday: state
\* Dates are proleptic Gregorian ordinals (date.toordinal()); the time of
\* day plays no part.  datetime.weekday(): Monday is 0, and ordinal 1 is a
\* Monday.
Dates == 8..MaxOrdinal
Weekday == 0..6
weekday(date) == (date + 6) % 7

\* A call of resolve_previous_weekday: its arguments and, once it has
\* returned, its result.
WeekdayCall(source, target, current_week_included) ==
    [pc |-> "called", source |-> source, target |-> target,
     current_week_included |-> current_week_included, result |-> 0]

\* No call is in progress.
InitWeekday ==
    previous_weekday = [WeekdayCall(8, 0, FALSE) EXCEPT !.pc = "none"]

\* internal_cache is a sequence of entries [key, task, t].  A dict and an
\* ExpiringCache keep insertion order, oldest first; an LRU keeps recency
\* order, most recently used first (the order of LRU.keys()).  t is the
\* time.monotonic() stamp ExpiringCache.__setitem__ stores with the value,
\* 0 in the other two mappings.
Entry(key, task, t) == [key |-> key, task |-> task, t |-> t]

Strategies == {"lru", "raw", "timed"}

\* Default of the maxsize parameter.
MaxsizeDefault == 128

\* What a task resolves to, and what awaiting it yields.
NoOutcome == [kind |-> "none", v |-> 0]
Result(v) == [kind |-> "result", v |-> v]
Failure(v) == [kind |-> "error", v |-> v]
Cancelled == [kind |-> "cancelled", v |-> 0]

\* A task object: the key wrapper derived for it, its state (pending until
\* the coroutine has ended), what it resolved to, whether a cancellation is
\* on its way to the coroutine, the number of callers awaiting it and what
\* the last caller whose await completed was given.  removed_by names the
\* function, _invalidate or _invalidate_containing, that took its entry out
\* of the mapping ("" when none did).
\* asyncio.create_task(func(*args, **kwargs)): a task that has not run yet.
NewTask(key) ==
    [key |-> key, state |-> "pending", outcome |-> NoOutcome, must_cancel |-> FALSE,
     waiters |-> 0, delivered |-> NoOutcome, removed_by |-> ""]

\* A handle no task object has.
NoTask ==
    [key |-> <<>>, state |-> "free", outcome |-> NoOutcome, must_cancel |-> FALSE,
     waiters |-> 0, delivered |-> NoOutcome, removed_by |-> ""]

\* ---------------------------------------------------------------- helpers
Keys(c) == {c[i].key : i \in 1..Len(c)}
TasksIn(c) == {c[i].task : i \in 1..Len(c)}

\* Position of key in the mapping, 0 when it is absent (KeyError).
IndexOf(c, key) ==
    IF key \in Keys(c) THEN CHOOSE i \in 1..Len(c) : c[i].key = key ELSE 0

RemoveAt(c, i) == SubSeq(c, 1, i - 1) \o SubSeq(c, i + 1, Len(c))

Pending(t) == tasks[t].state = "pending"

RECURSIVE Sum(_, _)
Sum(f, S) == IF S = {} THEN 0 ELSE LET x == CHOOSE x \in S : TRUE
                                   IN  f[x] + Sum(f, S \ {x})

\* The callers that are awaiting a task.
Waiting(ts) == Sum([t \in Handles |-> ts[t].waiters], Handles)

FreeHandles(ts) == {t \in Handles : ts[t].state = "free"}

\* The handle of the next task object, 0 when MaxTasks tasks exist.
NextHandle(ts) ==
    IF FreeHandles(ts) = {} THEN 0
    ELSE CHOOSE t \in FreeHandles(ts) : \A u \in FreeHandles(ts) : t <= u

\* The tasks something still refers to: the mapping, an awaiting caller, or
\* the event loop while the task is pending.
Referenced(ts, c) ==
    {t \in Handles : t \in TasksIn(c) \/ ts[t].waiters > 0 \/ ts[t].state = "pending"}

\* Python frees a task object nothing refers to; its handle is free again.
Collect(ts, c) ==
    [t \in Handles |-> IF t \in Referenced(ts, c) THEN ts[t] ELSE NoTask]

\* Variant of Unlink: removing an entry also cancels its task.
Unlink_cancelling(ts, before, after, by) ==
    [t \in Handles |->
        IF t \in TasksIn(before) \ TasksIn(after)
        THEN [ts[t] EXCEPT !.removed_by = by, !.state = "finished",
                           !.outcome = Cancelled]
        ELSE ts[t]]

\* The tasks after `by` deleted their entries (those of `before` that are
\* not in `after`): del drops the mapping's reference to the task and does
\* nothing else to it.
Unlink(ts, before, after, by) ==
    [t \in Handles |->
        IF t \in TasksIn(before) \ TasksIn(after)
        THEN [ts[t] EXCEPT !.removed_by = by] ELSE ts[t]]

\* Variant of Expired: an entry expires when its age reaches the ttl.
Expired_at_ttl(e, time) == time >= e.t + maxsize

\* ----------------------------------------------------------- ExpiringCache
\* current_time > (t + self.__ttl)
Expired(e, time) == time > e.t + maxsize

\* Variant of verify_cache_integrity: every entry stored before the current
\* time is dropped.
verify_cache_integrity_eager(c) == SelectSeq(c, LAMBDA e : e.t >= now)

\* __verify_cache_integrity: drop every entry that is expired.
verify_cache_integrity(c) == SelectSeq(c, LAMBDA e : ~Expired(e, now))

\* ---------------------------------------------------------------- lru.LRU
\* LRU.__getitem__: a key that is found becomes the most recently used.
LRU_getitem(c, key) ==
    LET i == IndexOf(c, key)
    IN  IF i = 0 THEN c ELSE <<c[i]>> \o RemoveAt(c, i)

\* Variant of LRU_setitem: a full table drops the most recently used of the
\* old entries.
LRU_setitem_evicts_newest(c, key, task) ==
    LET i == IndexOf(c, key)
        put == <<Entry(key, task, 0)>> \o (IF i = 0 THEN c ELSE RemoveAt(c, i))
    IN  IF Len(put) > maxsize THEN <<put[1]>> \o SubSeq(put, 3, Len(put)) ELSE put

\* Variant of LRU_setitem: the table grows beyond its capacity.
LRU_setitem_unbounded(c, key, task) ==
    LET i == IndexOf(c, key)
    IN  <<Entry(key, task, 0)>> \o (IF i = 0 THEN c ELSE RemoveAt(c, i))

\* LRU.__setitem__: the key goes to the head; beyond the capacity the least
\* recently used entry, at the tail, is dropped.
LRU_setitem(c, key, task) ==
    LET i == IndexOf(c, key)
        put == <<Entry(key, task, 0)>> \o (IF i = 0 THEN c ELSE RemoveAt(c, i))
    IN  IF Len(put) > maxsize THEN SubSeq(put, 1, maxsize) ELSE put

\* Variant of getitem: a key that is found gets the current time as stamp.
getitem_restamping(c, key) ==
    LET kept == IF strategy = "timed" THEN verify_cache_integrity(c) ELSE c
    IN  [i \in 1..Len(kept) |->
            IF kept[i].key = key /\ strategy = "timed"
            THEN [kept[i] EXCEPT !.t = now] ELSE kept[i]]

\* Variant of getitem: the lookup does not find the key.
getitem_missing(c, key) == SelectSeq(c, LAMBDA e : e.key # key)

\* ------------------------------------------------- internal_cache, any kind
\* The mapping after internal_cache[key] has been evaluated.
getitem(c, key) ==
    CASE strategy = "lru" -> LRU_getitem(c, key)
      [] strategy = "raw" -> c
      [] strategy = "timed" -> verify_cache_integrity(c)

\* Variant of setitem: the mapping is started afresh with the one entry.
setitem_single(c, key, task) == <<Entry(key, task, IF strategy = "timed" THEN now ELSE 0)>>

\* Variant of setitem: the task is not stored.
setitem_unpublished(c, key, task) == c

\* The mapping after internal_cache[key] = task.
setitem(c, key, task) ==
    LET i == IndexOf(c, key)
    IN  CASE strategy = "lru" -> LRU_setitem(c, key, task)
          [] strategy = "raw" ->
                IF i = 0 THEN Append(c, Entry(key, task, 0))
                ELSE [c EXCEPT ![i] = Entry(key, task, 0)]
          [] strategy = "timed" ->
                IF i = 0 THEN Append(c, Entry(key, task, now))
                ELSE [c EXCEPT ![i] = Entry(key, task, now)]

\* The mapping after del internal_cache[key]; none of the three mappings
\* does more in __delitem__ than remove the key.
delitem(c, key) ==
    LET i == IndexOf(c, key)
    IN  IF i = 0 THEN c ELSE RemoveAt(c, i)

\* An entry the spec calls live: present, and in an ExpiringCache not older
\* than the ttl.
Live(c, key) ==
    /\ key \in Keys(c)
    /\ strategy = "timed" => ~Expired(c[IndexOf(c, key)], now)

\* -------------------------------------------------------------------- Init
Init ==
    /\ strategy \in Strategies
    /\ maxsize \in (CASE strategy = "lru" -> Capacities
                      [] strategy = "raw" -> {MaxsizeDefault}
                      [] strategy = "timed" -> Ttls)
    /\ ignore_kwargs = FALSE
    /\ now = 0
    /\ cache = <<>>
    /\ tasks = [t \in Handles |-> NoTask]
    /\ stats = <<0, 0>>
    /\ InitLocks
    /\ InitEvent
    /\ InitStore
    /\ InitWeekday

\* ----------------------------------------------------------------- actions
\* The counters of the LRU after a lookup by subscript: a key that is found
\* counts as a hit, a KeyError as a miss.
LRU_counts(st, found) ==
    IF found THEN <<IF st[1] < MaxCount THEN st[1] + 1 ELSE st[1], st[2]>>
    ELSE <<st[1], IF st[2] < MaxCount THEN st[2] + 1 ELSE st[2]>>

\* Variant of _stats: 0, 0 under every strategy.
_stats_zero(st) == <<0, 0>>

\* _stats(): get_stats of the LRU, and 0, 0 under the other strategies.
_stats(st) == IF strategy = "lru" THEN st ELSE <<0, 0>>

\* The calls the specifications issue.
MadeCalls == Calls \cup CallerCalls \cup KeyCalls

\* The key _make_key derives for each of these calls under each setting of
\* ignore_kwargs, derived once.
MadeKeys ==
    [call \in MadeCalls, ignoreKwargs \in BOOLEAN |->
        _make_key(call.args, call.kwargs, ignoreKwargs)]

\* key = _make_key(args, kwargs) of a call, as wrapper and _invalidate derive it.
KeyOf(call) ==
    IF call \in MadeCalls THEN MadeKeys[call, ignore_kwargs]
    ELSE _make_key(call.args, call.kwargs, ignore_kwargs)

\* Variant of wrapper_returns: a task is created on every call.
wrapper_returns_always_new(c, ts, key) == NextHandle(Collect(ts, setitem(c, key, 0)))

\* Variant of wrapper_returns: an entry whose task failed is computed again.
wrapper_returns_retrying(c, ts, key) ==
    IF IndexOf(c, key) # 0 /\ ts[c[IndexOf(c, key)].task].outcome.kind # "error"
    THEN c[IndexOf(c, key)].task
    ELSE NextHandle(Collect(ts, setitem(c, key, 0)))

\* The task wrapper returns for this key when it finds the mapping as c
\* (after the lookup) and the tasks as ts: the entry's task, or on KeyError
\* the task it creates (which may get the handle of a task that the
\* insertion evicts and thereby frees).
wrapper_returns(c, ts, key) ==
    IF IndexOf(c, key) # 0 THEN c[IndexOf(c, key)].task
    ELSE NextHandle(Collect(ts, setitem(c, key, 0)))

\* wrapper(*args, **kwargs).  The lookup, create_task and the insertion run
\* without any suspension point; the new task has not run a step when
\* wrapper returns.  awaits tells whether the calling coroutine goes on to
\* await the task it got: wrapper is an ordinary function, its result may
\* be awaited later or never.
wrapper(call, awaits) ==
    LET key == KeyOf(call)
        looked == getitem(cache, key)
        task == wrapper_returns(looked, tasks, key)
        miss == IndexOf(looked, key) = 0
        stored == IF miss THEN setitem(looked, key, task) ELSE looked
        created == IF miss THEN [tasks EXCEPT ![task] = NewTask(key)] ELSE tasks
    IN  /\ awaits => Waiting(tasks) < NumCallers
        /\ task # 0
        /\ cache' = stored
        /\ tasks' = Collect(IF awaits
                            THEN [created EXCEPT ![task].waiters = @ + 1]
                            ELSE created, stored)
        /\ stats' = IF strategy = "lru" THEN LRU_counts(stats, ~miss) ELSE stats
        /\ UNCHANGED <<strategy, maxsize, ignore_kwargs, now,
                       lock_dicts, coros, eventvars, configvars,
                       previous_weekday>>

\* Variant of _invalidate_returns: True whether or not the key was there.
_invalidate_returns_always(c, key) == TRUE

\* What _invalidate returns when it is called with this key on mapping c:
\* False when del raised KeyError, True otherwise.
_invalidate_returns(c, key) == IndexOf(c, key) # 0

\* _invalidate(*args, **kwargs)
_invalidate(call) ==
    LET key == KeyOf(call)
        after == delitem(cache, key)
    IN  /\ cache' = after
        /\ tasks' = Collect(Unlink(tasks, cache, after, "_invalidate"), after)
        /\ UNCHANGED <<strategy, maxsize, ignore_kwargs, now, stats,
                       lock_dicts, coros, eventvars, configvars,
                       previous_weekday>>

\* Variant of Containing: the keys that end with sub.
Containing_suffix(c, sub) ==
    {k \in Keys(c) :
        Len(sub) <= Len(k) /\ SubSeq(k, Len(k) - Len(sub) + 1, Len(k)) = sub}

\* `key in k` for the keys of the mapping.
Containing(c, sub) == {k \in Keys(c) : IsSubstring(sub, k)}

\* _invalidate_containing(key)
_invalidate_containing(sub) ==
    LET to_remove == Containing(cache, sub)
        after == SelectSeq(cache, LAMBDA e : e.key \notin to_remove)
    IN  /\ cache' = after
        /\ tasks' = Collect(Unlink(tasks, cache, after, "_invalidate_containing"), after)
        /\ UNCHANGED <<strategy, maxsize, ignore_kwargs, now, stats,
                       lock_dicts, coros, eventvars, configvars,
                       previous_weekday>>

\* The task with the coroutine ended in `outcome`.
Done(t, outcome) ==
    [tasks EXCEPT ![t].state = "finished", ![t].outcome = outcome,
                  ![t].must_cancel = FALSE]

\* The coroutine returns; its value is told by its handle.
ProducerReturn(t) ==
    /\ Pending(t)
    /\ tasks' = Collect(Done(t, Result(t)), cache)
    /\ UNCHANGED <<strategy, maxsize, ignore_kwargs, now, cache, stats,
                   lock_dicts, coros, eventvars, configvars,
                   previous_weekday>>

\* The coroutine raises.
ProducerRaise(t) ==
    /\ Pending(t)
    /\ tasks' = Collect(Done(t, Failure(t)), cache)
    /\ UNCHANGED <<strategy, maxsize, ignore_kwargs, now, cache, stats,
                   lock_dicts, coros, eventvars, configvars,
                   previous_weekday>>

\* A requested cancellation reaches the task: CancelledError is thrown into
\* the coroutine and ends it.  (A coroutine that catches it goes on to
\* ProducerReturn or ProducerRaise.)
ProducerCancelled(t) ==
    /\ Pending(t)
    /\ tasks[t].must_cancel
    /\ tasks' = Collect(Done(t, Cancelled), cache)
    /\ UNCHANGED <<strategy, maxsize, ignore_kwargs, now, cache, stats,
                   lock_dicts, coros, eventvars, configvars,
                   previous_weekday>>

\* Variant of HandleOutcome: a failure reaches the caller as an error of the
\* cache's own.
HandleOutcome_wrapped(ts, h) ==
    IF ts[h].outcome.kind = "error" THEN Failure(0) ELSE ts[h].outcome

\* What awaiting the object wrapper returned yields: wrapper returns the
\* task itself, so the task's outcome.
HandleOutcome(ts, h) == ts[h].outcome

\* `await task` of one of the callers of t completes once the task is done.
Await(t) ==
    /\ tasks[t].waiters > 0
    /\ tasks[t].state = "finished"
    /\ tasks' = [tasks EXCEPT ![t].waiters = @ - 1,
                              ![t].delivered = HandleOutcome(tasks, t)]
    /\ UNCHANGED <<strategy, maxsize, ignore_kwargs, now, cache, stats,
                   lock_dicts, coros, eventvars, configvars,
                   previous_weekday>>

\* The tasks after a caller that awaits the pending task h was cancelled.
\* The caller awaits the task itself, so cancelling the caller cancels what
\* it waits for: the shared task.
CancelAwaited(ts, h) == [ts EXCEPT ![h].must_cancel = TRUE]

\* A caller is cancelled while it waits for t.  While the task is pending
\* the cancellation is passed on to it and the caller keeps waiting for it;
\* once the task is done the caller itself gets the CancelledError and is
\* gone.
CancelCaller(t) ==
    /\ tasks[t].waiters > 0
    /\ IF Pending(t)
       THEN /\ ~tasks[t].must_cancel
            /\ tasks' = CancelAwaited(tasks, t)
       ELSE tasks' = Collect([tasks EXCEPT ![t].waiters = @ - 1], cache)
    /\ UNCHANGED <<strategy, maxsize, ignore_kwargs, now, cache, stats,
                   lock_dicts, coros, eventvars, configvars,
                   previous_weekday>>

\* time.monotonic() advances; only an ExpiringCache reads it.
Tick ==
    /\ strategy = "timed"
    /\ now < MaxTime
    /\ now' = now + 1
    /\ UNCHANGED <<strategy, maxsize, ignore_kwargs, cache, tasks, stats,
                   lock_dicts, coros, eventvars, configvars,
                   previous_weekday>>

\* The cache and the tasks it creates, for callers that do not await and
\* a producer that does not fail.
Next ==
    \/ \E call \in Calls : wrapper(call, FALSE)
    \/ \E call \in Calls : _invalidate(call)
    \/ \E sub \in Substrings : _invalidate_containing(sub)
    \/ \E t \in Handles : ProducerReturn(t)
    \/ Tick

Spec == Init /\ [][Next]_vars

\* The cache with callers that await the tasks they get.
NextCallers ==
    \/ \E call \in CallerCalls : wrapper(call, TRUE)
    \/ \E call \in CallerCalls : _invalidate(call)
    \/ \E t \in Handles : ProducerReturn(t)
    \/ \E t \in Handles : ProducerRaise(t)
    \/ \E t \in Handles : Await(t)
    \/ Tick

SpecCallers == Init /\ [][NextCallers]_vars

\* The same, with callers that may be cancelled while they wait.
NextCancel ==
    \/ NextCallers
    \/ \E t \in Handles : ProducerCancelled(t)
    \/ \E t \in Handles : CancelCaller(t)

SpecCancel == Init /\ [][NextCancel]_vars

\* The maxsize arguments a misconfigured cache is constructed with.
ConfigValues == {-1, 0, 1}

\* Whether decorator(func) returns for this strategy and maxsize: LRU(maxsize)
\* raises ValueError unless the size is positive, {} takes no size and
\* ExpiringCache(maxsize) only stores the number.
Constructs(s, m) == s = "lru" => m > 0

\* The caches that constructing with ConfigValues leaves behind.
InitConfig ==
    /\ strategy \in Strategies
    /\ maxsize \in ConfigValues
    /\ Constructs(strategy, maxsize)
    /\ ignore_kwargs = FALSE
    /\ now = 0
    /\ cache = <<>>
    /\ tasks = [t \in Handles |-> NoTask]
    /\ stats = <<0, 0>>
    /\ InitLocks
    /\ InitEvent
    /\ InitStore
    /\ InitWeekday

SpecConfig == InitConfig /\ [][Next]_vars

\* The cache under every setting of ignore_kwargs, called with KeyCalls.
InitKeys ==
    /\ strategy \in Strategies
    /\ maxsize \in (CASE strategy = "lru" -> Capacities
                      [] strategy = "raw" -> {MaxsizeDefault}
                      [] strategy = "timed" -> Ttls)
    /\ ignore_kwargs \in BOOLEAN
    /\ now = 0
    /\ cache = <<>>
    /\ tasks = [t \in Handles |-> NoTask]
    /\ stats = <<0, 0>>
    /\ InitLocks
    /\ InitEvent
    /\ InitStore
    /\ InitWeekday

NextKeys ==
    \/ \E call \in KeyCalls : wrapper(call, FALSE)
    \/ \E t \in Handles : ProducerReturn(t)
    \/ Tick

SpecKeys == InitKeys /\ [][NextKeys]_vars

\* ------------------------------------------------- the mapping, used directly
\* The decorated function exposes its mapping as the attribute `cache`; these
\* are the methods of an ExpiringCache called on it.

\* The keys of the calls, as a user of the mapping writes them.
MappingKeys == {_make_key(call.args, call.kwargs, FALSE) : call \in Calls}

\* ExpiringCache.__contains__(key): `key in f.cache`.
ExpiringCache_contains(key) ==
    /\ strategy = "timed"
    /\ cache' = verify_cache_integrity(cache)
    /\ tasks' = Collect(tasks, cache')
    /\ UNCHANGED <<strategy, maxsize, ignore_kwargs, now, stats,
                   lock_dicts, coros, eventvars, configvars,
                   previous_weekday>>

\* ExpiringCache.__getitem__(key): `f.cache[key]`, which returns the value
\* or raises KeyError after the same removal.
ExpiringCache_getitem(key) ==
    /\ strategy = "timed"
    /\ cache' = getitem(cache, key)
    /\ tasks' = Collect(tasks, cache')
    /\ UNCHANGED <<strategy, maxsize, ignore_kwargs, now, stats,
                   lock_dicts, coros, eventvars, configvars,
                   previous_weekday>>

\* ExpiringCache.__setitem__(key, value): `f.cache[key] = task` with a task
\* the caller holds.
ExpiringCache_setitem(key, task) ==
    /\ strategy = "timed"
    /\ tasks[task].state # "free"
    /\ cache' = setitem(cache, key, task)
    /\ tasks' = Collect(tasks, cache')
    /\ UNCHANGED <<strategy, maxsize, ignore_kwargs, now, stats,
                   lock_dicts, coros, eventvars, configvars,
                   previous_weekday>>

\* The cache together with direct uses of its mapping.
NextMapping ==
    \/ \E call \in Calls : wrapper(call, FALSE)
    \/ \E t \in Handles : ProducerReturn(t)
    \/ \E key \in MappingKeys : ExpiringCache_contains(key)
    \/ \E key \in MappingKeys : ExpiringCache_getitem(key)
    \/ \E key \in MappingKeys, t \in Handles : ExpiringCache_setitem(key, t)
    \/ Tick

\* The caches that an ExpiringCache backs.
InitMapping == Init /\ strategy = "timed"

SpecMapping == InitMapping /\ [][NextMapping]_vars

\* ---------------------------------------------------------- locks: actions
\* The coroutines that refer to the lock of key k: they hold it in the local
\* lock_ from setdefault until wrapper returns.
Referring(cs, k) ==
    {p \in Coros : cs[p].pc \in {"waiting", "woken", "body"}
                    /\ LockKey(cs[p].ns, cs[p].id) = k}

\* The WeakValueDictionary drops a lock that no coroutine refers to.
Finalize(ld, cs) ==
    [k \in LockKeys |-> IF Referring(cs, k) = {} THEN NoLock ELSE ld[k]]

\* Variant of setdefault: the new lock replaces the one of the key.
setdefault_fresh(ld, k) == NewLock

\* locks.setdefault(id_, asyncio.Lock())
setdefault(ld, k) == IF ld[k].present THEN ld[k] ELSE NewLock

\* Variant of Acquirable: acquire() takes the lock without looking.
Acquirable_always(l) == TRUE

\* The test of Lock.acquire(): the lock is free and no future is queued
\* (none is ever cancelled here), so acquire() returns without suspending.
Acquirable(l) == ~l.locked /\ l.waiters = <<>>

\* Lock.release(): the lock is free and the future of the first waiter, if
\* any, is set; the waiter stays queued until it runs.
release(l) == [l EXCEPT !.locked = FALSE]
WakeUpFirst(cs, l) ==
    IF l.waiters # <<>> /\ cs[l.waiters[1]].pc = "waiting"
    THEN [cs EXCEPT ![l.waiters[1]].pc = "woken"]
    ELSE cs

\* wrapper from the point where id_ is known to its next suspension: it
\* gets the lock object, then either enters the body holding the lock,
\* queues in acquire(), or gives up with None or LockedResourceError.
Enter(p, ns, id, wait, raise_error) ==
    LET k == LockKey(ns, id)
        l == setdefault(lock_dicts, k)
    IN  IF wait \/ ~l.locked
        THEN IF Acquirable(l)
             THEN /\ lock_dicts' = [lock_dicts EXCEPT ![k] = [l EXCEPT !.locked = TRUE]]
                  /\ coros' = [coros EXCEPT ![p] = At("body", ns, id)]
             ELSE /\ lock_dicts' = [lock_dicts EXCEPT ![k] =
                                        [l EXCEPT !.waiters = Append(@, p)]]
                  /\ coros' = [coros EXCEPT ![p] = At("waiting", ns, id)]
        ELSE /\ coros' = [coros EXCEPT ![p] =
                             Idle(IF raise_error THEN LockedResourceError(ns, id)
                                  ELSE Ended("None"))]
             /\ lock_dicts' = Finalize([lock_dicts EXCEPT ![k] = l], coros')

\* A call of a function decorated with lock(ns, id) or with a callable
\* resource_id that returns id at once.
lock_wrapper(p, ns, id, wait, raise_error) ==
    /\ coros[p].pc = "idle"
    /\ Enter(p, ns, id, wait, raise_error)
    /\ UNCHANGED <<cachevars, eventvars, configvars, previous_weekday>>

\* A call whose resource_id callable returns an awaitable: the coroutine
\* suspends in `await id_`.
lock_wrapper_awaitable(p, ns, id) ==
    /\ coros[p].pc = "idle"
    /\ coros' = [coros EXCEPT ![p] = At("resolving", ns, id)]
    /\ UNCHANGED <<cachevars, lock_dicts, eventvars, configvars, previous_weekday>>

\* The awaitable has produced the id and the coroutine goes on.
ResolveId(p, wait, raise_error) ==
    /\ coros[p].pc = "resolving"
    /\ Enter(p, coros[p].ns, coros[p].id, wait, raise_error)
    /\ UNCHANGED <<cachevars, eventvars, configvars, previous_weekday>>

\* A waiter whose future release() has set runs again: it leaves the queue
\* and takes the lock, then enters the body.
Resume(p) ==
    LET k == LockKey(coros[p].ns, coros[p].id)
    IN  /\ coros[p].pc = "woken"
        /\ lock_dicts' = [lock_dicts EXCEPT ![k] =
               [@ EXCEPT !.locked = TRUE,
                         !.waiters = SelectSeq(@, LAMBDA w : w # p)]]
        /\ coros' = [coros EXCEPT ![p].pc = "body"]
        /\ UNCHANGED <<cachevars, eventvars, configvars, previous_weekday>>

\* The decorated function returns or raises: `async with` releases the lock
\* and wrapper ends.
BodyEnds(p, result) ==
    LET k == LockKey(coros[p].ns, coros[p].id)
        l == release(lock_dicts[k])
    IN  /\ coros[p].pc = "body"
        /\ coros' = [WakeUpFirst(coros, l) EXCEPT ![p] = Idle(result)]
        /\ lock_dicts' = Finalize([lock_dicts EXCEPT ![k] = l], coros')
        /\ UNCHANGED <<cachevars, eventvars, configvars, previous_weekday>>

NextLock ==
    \/ \E p \in Coros, ns \in Namespaces, id \in ResourceIds,
          wait \in BOOLEAN, raise_error \in BOOLEAN :
            lock_wrapper(p, ns, id, wait, raise_error)
    \/ \E p \in Coros, ns \in Namespaces, id \in ResourceIds :
            lock_wrapper_awaitable(p, ns, id)
    \/ \E p \in Coros, wait \in BOOLEAN, raise_error \in BOOLEAN :
            ResolveId(p, wait, raise_error)
    \/ \E p \in Coros : Resume(p)
    \/ \E p \in Coros, result \in {"returned", "raised"} :
            BodyEnds(p, Ended(result))

\* The lock-decorated functions next to a cache nobody uses.
InitLock ==
    /\ strategy = "raw"
    /\ maxsize = MaxsizeDefault
    /\ ignore_kwargs = FALSE
    /\ now = 0
    /\ cache = <<>>
    /\ tasks = [t \in Handles |-> NoTask]
    /\ stats = <<0, 0>>
    /\ InitLocks
    /\ InitEvent
    /\ InitStore
    /\ InitWeekday

SpecLock == InitLock /\ [][NextLock]_vars

\* ---------------------------------------------------- SharedEvent: actions
\* SharedEvent.__enter__: one more active holder, and Event.clear().
SharedEvent_enter(ev) ==
    [_active_count |-> ev._active_count + 1, _event |-> FALSE]

\* Variant of SharedEvent_exit: the event is set on every exit.
SharedEvent_exit_always_sets(ev, exc) ==
    [_active_count |-> ev._active_count - 1, _event |-> TRUE]

\* SharedEvent.__exit__, with or without an exception of the block: one
\* active holder less, and Event.set() when none is left.
SharedEvent_exit(ev, exc) ==
    [_active_count |-> ev._active_count - 1,
     _event |-> IF ev._active_count - 1 = 0 THEN TRUE ELSE ev._event]

\* Event.set() sets the future of every coroutine queued in Event.wait().
Event_set(waiters) ==
    [w \in EventWaiters |-> IF waiters[w] = "waiting" THEN "released" ELSE waiters[w]]

\* A holder enters `with shared_event:`, possibly inside another such block.
HolderEnters(h) ==
    /\ event_users.holders[h] < MaxDepth
    /\ shared_event' = SharedEvent_enter(shared_event)
    /\ event_users' = [event_users EXCEPT !.holders[h] = @ + 1]
    /\ UNCHANGED <<cachevars, lockvars, configvars, previous_weekday>>

\* A holder leaves its innermost block, at its end or by an exception.
HolderExits(h, exc) ==
    /\ event_users.holders[h] > 0
    /\ shared_event' = SharedEvent_exit(shared_event, exc)
    /\ event_users' = [event_users EXCEPT
           !.holders[h] = @ - 1,
           !.waiters = IF shared_event'._event THEN Event_set(@) ELSE @]
    /\ UNCHANGED <<cachevars, lockvars, configvars, previous_weekday>>

\* SharedEvent.wait(): Event.wait() returns at once when the event is set
\* and queues a future otherwise.
SharedEvent_wait(w) ==
    /\ event_users.waiters[w] = "idle"
    /\ event_users' = [event_users EXCEPT
           !.waiters[w] = IF shared_event._event THEN "idle" ELSE "waiting"]
    /\ UNCHANGED <<cachevars, lockvars, configvars, previous_weekday, shared_event>>

\* A coroutine whose future was set runs again and wait() returns.
WaitReturns(w) ==
    /\ event_users.waiters[w] = "released"
    /\ event_users' = [event_users EXCEPT !.waiters[w] = "idle"]
    /\ UNCHANGED <<cachevars, lockvars, configvars, previous_weekday, shared_event>>

NextEvent ==
    \/ \E h \in Holders : HolderEnters(h)
    \/ \E h \in Holders, exc \in BOOLEAN : HolderExits(h, exc)
    \/ \E w \in EventWaiters : SharedEvent_wait(w)
    \/ \E w \in EventWaiters : WaitReturns(w)

\* A SharedEvent next to a cache and locks nobody uses.
InitSharedEvent == InitLock

SpecEvent == InitSharedEvent /\ [][NextEvent]_vars

\* ------------------------------------------------ previous weekday: action
RECURSIVE Backwards(_, _)
\* while source.weekday() != target.value: source -= timedelta(days=1)
Backwards(source, target) ==
    IF weekday(source) = target THEN source ELSE Backwards(source - 1, target)

\* resolve_previous_weekday(target=..., source=..., current_week_included=...)
resolve_previous_weekday(target, source, current_week_included) ==
    IF weekday(source) = target
    THEN IF current_week_included THEN source ELSE source + 7
    ELSE Backwards(source, target)

\* The call returns.
ResolvePreviousWeekday ==
    /\ previous_weekday.pc = "called"
    /\ previous_weekday' =
           [previous_weekday EXCEPT
               !.pc = "returned",
               !.result = resolve_previous_weekday(previous_weekday.target,
                                                   previous_weekday.source,
                                                   previous_weekday.current_week_included)]
    /\ UNCHANGED <<cachevars, lockvars, eventvars, configvars>>

NextWeekday == ResolvePreviousWeekday

\* A call with each source date, target weekday and current_week_included.
InitWeekdayCalls ==
    /\ strategy = "raw"
    /\ maxsize = MaxsizeDefault
    /\ ignore_kwargs = FALSE
    /\ now = 0
    /\ cache = <<>>
    /\ tasks = [t \in Handles |-> NoTask]
    /\ stats = <<0, 0>>
    /\ InitLocks
    /\ InitEvent
    /\ InitStore
    /\ previous_weekday \in
           {WeekdayCall(source, target, included) :
                source \in Dates, target \in Weekday, included \in BOOLEAN}

SpecWeekday == InitWeekdayCalls /\ [][NextWeekday]_vars

\* --------------------------------------------------------- Config: actions
\* Config._dump: the text of a copy of _db replaces the file.
_dump(db) == to_json(db)

\* `async with self.lock` up to the first suspension, for call c with the
\* record call: Lock.acquire() returns at once and the executor job is
\* submitted, or the coroutine queues on the lock.
ConfigAcquire(c, call, db) ==
    IF Acquirable(config.lock)
    THEN /\ config' = [_db |-> db, lock |-> [config.lock EXCEPT !.locked = TRUE]]
         /\ config_calls' = [config_calls EXCEPT ![c] = [call EXCEPT !.pc = "running"]]
    ELSE /\ config' = [_db |-> db, lock |-> [config.lock EXCEPT !.waiters = Append(@, c)]]
         /\ config_calls' = [config_calls EXCEPT ![c] = [call EXCEPT !.pc = "waiting"]]

\* The task of Config.load that __init__ created runs its first step.
load ==
    /\ config_calls[LoadTask].pc = "created"
    /\ ConfigAcquire(LoadTask, config_calls[LoadTask], config._db)
    /\ UNCHANGED <<cachevars, lockvars, eventvars, previous_weekday, config_file>>

\* Config.put(key, value): the entry is written, then save() is awaited.
put(c, key, value) ==
    /\ config_calls[c].pc = "idle"
    /\ ConfigAcquire(c, ConfigCall("idle", "put", key, value),
                     [config._db EXCEPT ![key] = value])
    /\ UNCHANGED <<cachevars, lockvars, eventvars, previous_weekday, config_file>>

\* Config.remove(key): returns at once on KeyError, else deletes the entry
\* and awaits save().
remove(c, key) ==
    /\ config_calls[c].pc = "idle"
    /\ IF config._db[key] = Missing
       THEN /\ config_calls' = [config_calls EXCEPT
                                   ![c] = ConfigCall("done", "remove", key, Missing)]
            /\ UNCHANGED config
       ELSE ConfigAcquire(c, ConfigCall("idle", "remove", key, Missing),
                          [config._db EXCEPT ![key] = Missing])
    /\ UNCHANGED <<cachevars, lockvars, eventvars, previous_weekday, config_file>>

\* Config.save()
save(c) ==
    /\ config_calls[c].pc = "idle"
    /\ ConfigAcquire(c, ConfigCall("idle", "save", "", Missing), config._db)
    /\ UNCHANGED <<cachevars, lockvars, eventvars, previous_weekday, config_file>>

\* A coroutine whose future release() has set runs again: it leaves the
\* queue, takes the lock and submits its executor job.
ConfigResume(c) ==
    /\ config_calls[c].pc = "woken"
    /\ config' = [config EXCEPT
           !.lock = [@ EXCEPT !.locked = TRUE,
                              !.waiters = SelectSeq(@, LAMBDA w : w # c)]]
    /\ config_calls' = [config_calls EXCEPT ![c].pc = "running"]
    /\ UNCHANGED <<cachevars, lockvars, eventvars, previous_weekday, config_file>>

\* The executor thread runs the job: load_from_file for the load task,
\* _dump for save.
ExecutorRuns(c) ==
    /\ config_calls[c].pc = "running"
    /\ IF config_calls[c].op = "load"
       THEN /\ config' = [config EXCEPT !._db = load_from_file(config_file)]
            /\ UNCHANGED config_file
       ELSE /\ config_file' = _dump(config._db)
            /\ UNCHANGED config
    /\ config_calls' = [config_calls EXCEPT ![c].pc = "finished"]
    /\ UNCHANGED <<cachevars, lockvars, eventvars, previous_weekday>>

\* The coroutine resumes after its job: `async with` releases the lock and
\* the call returns.
ConfigReturns(c) ==
    LET l == release(config.lock)
    IN  /\ config_calls[c].pc = "finished"
        /\ config' = [config EXCEPT !.lock = l]
        /\ config_calls' = [WakeUpFirst(config_calls, l) EXCEPT ![c].pc = "done"]
        /\ UNCHANGED <<cachevars, lockvars, eventvars, previous_weekday, config_file>>

NextStore ==
    \/ load
    \/ \E c \in ConfigCallers, key \in DbKeys, value \in DbValues : put(c, key, value)
    \/ \E c \in ConfigCallers, key \in DbKeys : remove(c, key)
    \/ \E c \in ConfigCallers : save(c)
    \/ \E c \in {LoadTask} \cup ConfigCallers : ConfigResume(c)
    \/ \E c \in {LoadTask} \cup ConfigCallers : ExecutorRuns(c)
    \/ \E c \in {LoadTask} \cup ConfigCallers : ConfigReturns(c)

\* Config(path) and Config(path, load_later=True) over each initial file,
\* before any of its methods is called.
InitConfigs ==
    /\ strategy = "raw"
    /\ maxsize = MaxsizeDefault
    /\ ignore_kwargs = FALSE
    /\ now = 0
    /\ cache = <<>>
    /\ tasks = [t \in Handles |-> NoTask]
    /\ stats = <<0, 0>>
    /\ InitLocks
    /\ InitEvent
    /\ InitWeekday
    /\ config_file \in InitialFiles
    /\ \E load_later \in BOOLEAN :
          /\ config = Config(config_file, load_later)
          /\ config_calls = [c \in {LoadTask} \cup ConfigCallers |->
                 IF c = LoadTask
                 THEN ConfigCall(IF load_later THEN "created" ELSE "done", "load", "", Missing)
                 ELSE NoConfigCall]

SpecStore == InitConfigs /\ [][NextStore]_vars

\* =================================================================== claims
\* The entry of key in mapping c (key must be in it).
EntryOf(c, key) == c[IndexOf(c, key)]

\* A step that changes the other tasks at most by freeing them.
OthersKept(h) == \A t \in Handles \ {h} : tasks'[t] \in {tasks[t], NoTask}

\* ----------------------------------------------------------------------- C1
\* C1 as stated: for every strategy, calls whose arguments derive the same
\* key and that are issued before the first producer execution completes,
\* with no invalidation in between, start the producer once.  Two pending
\* executions of one key therefore exist only if one of them was invalidated.
C1_SingleFlightUnlessInvalidated ==
    \A t, u \in Handles :
        (t # u /\ Pending(t) /\ Pending(u) /\ tasks[t].key = tasks[u].key)
            => (tasks[t].removed_by # "" \/ tasks[u].removed_by # "")

\* A call whose key has a live entry joins the entry's task: the mapping
\* keeps the entry, no task is created, the caller awaits that task.
C1_Joins(call) ==
    LET key == KeyOf(call)
        h == EntryOf(cache, key).task
    IN  (Live(cache, key) /\ wrapper(call, TRUE)) =>
            /\ key \in Keys(cache')
            /\ EntryOf(cache', key).task = h
            /\ tasks'[h] = [tasks[h] EXCEPT !.waiters = @ + 1]
            /\ OthersKept(h)

\* Whatever a caller of a handle was given is the one outcome of its task.
C1_OneOutcomePerHandle ==
    \A t \in Handles : tasks[t].delivered \in {NoOutcome, tasks[t].outcome}

\* C1 as amended: for every strategy, calls whose arguments derive the same
\* key, issued while the key's entry is live (not removed by invalidate,
\* invalidateContaining or an LRU eviction, and not older than the ttl),
\* start no second execution: each returns the entry's handle, and all
\* callers of a handle observe the same resolved value.
C1_SingleFlightWhileLive ==
    /\ []C1_OneOutcomePerHandle
    /\ [][\A call \in CallerCalls : C1_Joins(call)]_vars

\* Two callers coalesced on one published task that has not completed.
C1_Witness ==
    \E t \in Handles :
        Pending(t) /\ tasks[t].waiters >= 2 /\ t \in TasksIn(cache)

\* ----------------------------------------------------------------------- C2
\* C2 as stated: a caller that invokes with a key while an earlier
\* execution for that key has not completed observes that execution's
\* handle and starts no second one.  (Executions that were invalidated are
\* left aside: the claim's source treats them apart.)
C2_Observes(call) ==
    \A t \in Handles :
        (wrapper(call, FALSE) /\ Pending(t) /\ tasks[t].key = KeyOf(call)
            /\ tasks[t].removed_by = "")
        => /\ KeyOf(call) \in Keys(cache')
           /\ EntryOf(cache', KeyOf(call)).task = t
           /\ tasks'[t] = tasks[t]

C2_LaterCallerObservesFirstHandle == [][\A call \in Calls : C2_Observes(call)]_vars

\* A call that finds no live entry leaves the new task in the mapping under
\* its key, and the task has not run a step.
C2_Publishes(call) ==
    LET key == KeyOf(call)
    IN  (~Live(cache, key) /\ wrapper(call, FALSE)) =>
            /\ key \in Keys(cache')
            /\ tasks'[EntryOf(cache', key).task] = NewTask(key)

\* A call that finds a live entry whose task is pending gets that task.
C2_ObservesLive(call) ==
    LET key == KeyOf(call)
        h == EntryOf(cache, key).task
    IN  (Live(cache, key) /\ Pending(h) /\ wrapper(call, FALSE)) =>
            /\ key \in Keys(cache')
            /\ EntryOf(cache', key).task = h
            /\ tasks'[h] = tasks[h]
            /\ OthersKept(h)

\* C2 as amended: invoke publishes the new handle under its key in the step
\* that creates it, before the producer's first step, so a caller that
\* invokes with the same key while the first caller's producer has not
\* completed and its entry is still live (not invalidated, evicted or
\* expired) observes the published handle and starts no second computation.
C2_PublishedBeforeFirstStep ==
    [][\A call \in Calls : C2_Publishes(call) /\ C2_ObservesLive(call)]_vars

\* A task that is published under its key and has not run a step.
C2_Witness ==
    \E i \in 1..Len(cache) : tasks[cache[i].task] = NewTask(cache[i].key)

\* ----------------------------------------------------------------------- C3
\* C3: when several callers await the same handle and one of them is
\* cancelled while waiting, the producer execution is not cancelled: no
\* cancellation is on its way to it and it does not end cancelled.
C3_CancellationIndependence ==
    \A t \in Handles :
        tasks[t].waiters >= 2 =>
            /\ ~tasks[t].must_cancel
            /\ tasks[t].outcome # Cancelled

\* ----------------------------------------------------------------------- C4
\* C4: when the producer fails, the handle holds that failure and every
\* caller of the handle is given it unchanged.
C4_FailurePropagation ==
    \A t \in Handles :
        tasks[t].outcome.kind = "error" =>
            /\ tasks[t].outcome = Failure(t)
            /\ tasks[t].delivered \in {NoOutcome, Failure(t)}

\* A caller has been given the failure while another still awaits the handle.
C4_Witness ==
    \E t \in Handles :
        tasks[t].delivered = Failure(t) /\ tasks[t].waiters >= 1

\* ----------------------------------------------------------------------- C5
\* A call whose key has a live entry with a failed task gets that task; the
\* task stays failed and the entry stays.
C5_Poisoned(call) ==
    LET key == KeyOf(call)
        h == EntryOf(cache, key).task
    IN  (Live(cache, key) /\ tasks[h].outcome.kind = "error" /\ wrapper(call, TRUE)) =>
            /\ key \in Keys(cache')
            /\ EntryOf(cache', key).task = h
            /\ tasks'[h].state = "finished"
            /\ tasks'[h].outcome = tasks[h].outcome
            /\ tasks'[h].waiters = tasks[h].waiters + 1

\* The end of a producer execution leaves the mapping as it is.
C5_CompletionKeepsMapping ==
    \A t \in Handles : (ProducerReturn(t) \/ ProducerRaise(t)) => cache' = cache

\* C5: a handle whose producer failed stays in the mapping under its key and
\* every later invoke with that key returns it without a new execution, as
\* long as the entry is live; completion never changes the mapping.
C5_FailurePoisoning ==
    [][C5_CompletionKeepsMapping /\ \A call \in CallerCalls : C5_Poisoned(call)]_vars

\* A failed handle in the mapping that a caller has been given and that as
\* many callers as can wait at once are awaiting: one joined after the failure.
C5_Witness ==
    \E t \in Handles :
        /\ t \in TasksIn(cache)
        /\ tasks[t].outcome.kind = "error"
        /\ tasks[t].delivered = tasks[t].outcome
        /\ tasks[t].waiters = NumCallers

\* ----------------------------------------------------------------------- C6
\* After invalidate returned true the key is gone and an invalidate that
\* follows at once returns false.
C6_Removed(call) ==
    (_invalidate_returns(cache, KeyOf(call)) /\ _invalidate(call)) =>
        /\ KeyOf(call) \notin Keys(cache')
        /\ ~_invalidate_returns(cache', KeyOf(call))

\* A key that is absent comes back only with a new execution: a task that
\* has not run, stored under the key.
C6_Reexecutes(call) ==
    (KeyOf(call) \notin Keys(cache) /\ KeyOf(call) \in Keys(cache')) =>
        /\ wrapper(call, FALSE)
        /\ tasks'[EntryOf(cache', KeyOf(call)).task] = NewTask(KeyOf(call))

\* An invoke with an absent key stores the key.
C6_Invoked(call) ==
    (KeyOf(call) \notin Keys(cache) /\ wrapper(call, FALSE)) => KeyOf(call) \in Keys(cache')

\* C6: after invalidate(args) returned true, the next invoke with the same
\* arguments starts a new execution and returns a new handle, and a second
\* invalidate(args) right after the first returns false.
C6_InvalidationSequence ==
    [][\A call \in Calls : C6_Removed(call) /\ C6_Reexecutes(call) /\ C6_Invoked(call)]_vars

\* An execution that invalidate unlinked, and a new one stored for its key.
C6_Witness ==
    \E t, u \in Handles :
        /\ t # u
        /\ tasks[u].removed_by = "_invalidate"
        /\ tasks[t].key = tasks[u].key
        /\ t \in TasksIn(cache)
        /\ tasks[t] = NewTask(tasks[u].key)

\* ----------------------------------------------------------------------- C7
\* C7: invalidate returns true exactly when a live entry for the key is
\* present; an entry older than the ttl counts as absent even if it has not
\* been purged yet.
C7_InvalidateReturnsLive ==
    \A call \in Calls :
        _invalidate_returns(cache, KeyOf(call)) = Live(cache, KeyOf(call))

\* ----------------------------------------------------------------------- C8
\* invalidate leaves every pending task pending, with its callers, and
\* sends it no cancellation.
C8_KeepsRunning(call) ==
    _invalidate(call) =>
        \A t \in Handles :
            Pending(t) =>
                /\ tasks'[t].state = "pending"
                /\ tasks'[t].must_cancel = tasks[t].must_cancel
                /\ tasks'[t].waiters = tasks[t].waiters
                /\ tasks'[t].outcome = tasks[t].outcome

\* The invoke that follows starts a fresh execution under the key.
C8_Fresh(call) ==
    (KeyOf(call) \notin Keys(cache) /\ wrapper(call, TRUE)) =>
        /\ KeyOf(call) \in Keys(cache')
        /\ tasks'[EntryOf(cache', KeyOf(call)).task] =
              [NewTask(KeyOf(call)) EXCEPT !.waiters = 1]

\* The callers of a handle are given the result of that handle's own
\* execution.
C8_OwnResult ==
    \A t \in Handles :
        tasks[t].delivered # NoOutcome =>
            tasks[t].delivered \in {Result(t), Failure(t)}

\* C8: invalidate does not cancel an in-flight producer, it only removes the
\* key's entry; the callers of the old handle still get the old execution's
\* result and a following invoke starts a fresh execution.
C8_InvalidateDoesNotCancel ==
    /\ []C8_OwnResult
    /\ [][\A call \in CallerCalls : C8_KeepsRunning(call) /\ C8_Fresh(call)]_vars

\* Two executions of one key in flight at once, each awaited: the one
\* invalidate unlinked and the one stored after it.
C8_Witness ==
    \E t, u \in Handles :
        /\ t # u
        /\ tasks[t].key = tasks[u].key
        /\ Pending(t) /\ Pending(u)
        /\ tasks[u].removed_by = "_invalidate" /\ tasks[u].waiters >= 1
        /\ t \in TasksIn(cache) /\ tasks[t].waiters >= 1

\* ----------------------------------------------------------------------- C9
\* The positions of the entries whose key does not contain sub.
C9_Kept(sub) == {i \in 1..Len(cache) : ~IsSubstring(sub, cache[i].key)}

C9_Selective(sub) ==
    _invalidate_containing(sub) =>
        /\ Len(cache') = Cardinality(C9_Kept(sub))
        /\ \A i \in C9_Kept(sub) :
              cache'[Cardinality({j \in C9_Kept(sub) : j <= i})] = cache[i]

\* C9: invalidateContaining(substring) removes every entry whose key
\* contains substring and leaves every other entry unchanged, with its
\* handle and its place among the entries, for each strategy.
C9_InvalidateContaining == [][\A sub \in Substrings : C9_Selective(sub)]_vars

\* invalidate_containing unlinked an execution and the mapping holds an entry.
C9_Witness ==
    \E t \in Handles :
        /\ tasks[t].removed_by = "_invalidate_containing"
        /\ cache # <<>>
        /\ \A i \in 1..Len(cache) : cache[i].key # tasks[t].key

\* ---------------------------------------------------------------------- C10
\* The entries an invoke leaves behind the one it used: on a hit all the
\* others, on an insertion into a full table all but the least recently
\* used, else all.
C10_Rest(key) ==
    IF key \in Keys(cache) THEN RemoveAt(cache, IndexOf(cache, key))
    ELSE IF Len(cache) = maxsize THEN SubSeq(cache, 1, Len(cache) - 1)
    ELSE cache

C10_Step(call) ==
    (strategy = "lru" /\ wrapper(call, FALSE)) =>
        /\ cache' # <<>>
        /\ cache'[1].key = KeyOf(call)
        /\ KeyOf(call) \in Keys(cache) => cache'[1] = EntryOf(cache, KeyOf(call))
        /\ Tail(cache') = C10_Rest(KeyOf(call))

\* C10: under the LRU strategy an invoke that hits makes the entry the most
\* recently used, and an invoke that inserts into a table holding capacity
\* entries evicts exactly the least recently used one.
C10_LruOrder == [][\A call \in Calls : C10_Step(call)]_vars

\* A table of capacity 2 whose older task is the more recently used entry.
C10_Witness ==
    /\ strategy = "lru"
    /\ maxsize = 2
    /\ Len(cache) = 2
    /\ cache[1].task < cache[2].task
    /\ Pending(cache[1].task) /\ Pending(cache[2].task)

\* ---------------------------------------------------------------------- C11
\* An invoke on a key the ExpiringCache holds: up to the age ttl it returns
\* the entry's task and leaves the entry with its stamp; beyond, it stores
\* a task that has not run, stamped with the current time.
C11_Step(call) ==
    (strategy = "timed" /\ KeyOf(call) \in Keys(cache) /\ wrapper(call, FALSE)) =>
        LET key == KeyOf(call)
            e == EntryOf(cache, key)
        IN  /\ key \in Keys(cache')
            /\ IF now - e.t <= maxsize
               THEN /\ EntryOf(cache', key) = e
                    /\ tasks'[e.task] = tasks[e.task]
               ELSE /\ EntryOf(cache', key).t = now
                    /\ tasks'[EntryOf(cache', key).task] = NewTask(key)

\* C11: under TimeWindowed(ttl) an invoke at time now on a key inserted at
\* insertedAt returns the cached handle when now - insertedAt <= ttl and
\* behaves as a miss, starting a fresh execution and storing a new entry
\* stamped now, when now - insertedAt > ttl.
C11_TtlExpiry == [][\A call \in Calls : C11_Step(call)]_vars

\* An execution whose entry expired while it was pending, and the one an
\* invoke stored for the same key at the current time.
C11_Witness ==
    /\ strategy = "timed"
    /\ \E t, u \in Handles :
          /\ t # u
          /\ Pending(t) /\ Pending(u)
          /\ tasks[t].key = tasks[u].key
          /\ tasks[u].removed_by = ""
          /\ u \notin TasksIn(cache)
          /\ t \in TasksIn(cache)
          /\ EntryOf(cache, tasks[t].key).t = now
          /\ now > maxsize

\* ---------------------------------------------------------------------- C12
\* No entry of mapping c is older than the ttl at the current time.
C12_NoneExpired(c) == \A i \in 1..Len(c) : ~(now > c[i].t + maxsize)

\* C12: under TimeWindowed(ttl) every containment check, every read and
\* every write of the backing mapping first removes all entries older than
\* ttl, so directly after any such operation the mapping holds no expired
\* entry.
C12_PurgeOnEveryAccess ==
    [][(\E key \in MappingKeys :
            \/ ExpiringCache_contains(key)
            \/ ExpiringCache_getitem(key)
            \/ \E t \in Handles : ExpiringCache_setitem(key, t))
        => C12_NoneExpired(cache')]_vars

C13_Hits(a, b) ==
    LET key == KeyOf(CallInstance(a))
        h == EntryOf(cache, key).task
    IN  (Live(cache, key) /\ wrapper(CallInstance(b), FALSE)) =>
            /\ Keys(cache') \subseteq Keys(cache)
            /\ key \in Keys(cache')
            /\ EntryOf(cache', key).task = h
            /\ tasks'[h] = tasks[h]
            /\ OthersKept(h)

\* The key of f(<instance>) is the function's name and the class's
\* qualified name in angle brackets, whichever the instance.
C13_ClassKey ==
    \A a \in Instances :
        KeyOf(CallInstance(a)) = FuncName \o <<":", "<">> \o a.text \o <<">">>

C14_IgnoredNamesExcluded ==
    ~ignore_kwargs =>
        /\ \A name \in HandleNames, o \in Instances :
              KeyOf(CallNamed(name, o)) = FuncName \o <<":", "1">>
        /\ \A v \in XValues :
              KeyOf(CallNamed(<<"x">>, v)) =
                  FuncName \o <<":", "1", ":", "'", "x", "'", ":", "'">> \o v.text \o <<"'">>

\* A call that differs from the one that created a live entry only in the
\* value or name of a skipped keyword returns the entry's task.
C14_Coalesces(call) ==
    LET key == FuncName \o <<":", "1">>
        h == EntryOf(cache, key).task
    IN  (~ignore_kwargs /\ Live(cache, key) /\ wrapper(call, FALSE)) =>
            /\ key \in Keys(cache')
            /\ EntryOf(cache', key).task = h
            /\ tasks'[h] = tasks[h]

\* C14: a named argument whose name is connection or pool contributes
\* nothing to the key, so two calls that differ only in the value of such
\* an argument derive the same key and coalesce onto one execution; every
\* other named argument contributes both its name and its value.
C14_IgnoredArguments ==
    /\ []C14_IgnoredNamesExcluded
    /\ [][\A name \in HandleNames, o \in Instances :
              C14_Coalesces(CallNamed(name, o))]_vars

\* With keywords in use, the entry of f(1, connection=...) is in the mapping
\* under the key of f(1).
C14_Witness ==
    /\ ~ignore_kwargs
    /\ FuncName \o <<":", "1">> \in Keys(cache)

\* ---------------------------------------------------------------------- C15
\* The keys of f(1, x='a') and f(1, x='b') differ.
C15_KeysDiffer ==
    ~ignore_kwargs =>
        \A v, w \in XValues :
            v # w => KeyOf(CallNamed(<<"x">>, v)) # KeyOf(CallNamed(<<"x">>, w))

\* f(1, x=w) called while the mapping holds the entry of f(1, x=v) and none
\* of its own starts an execution and stores it under its own key, next to
\* the other entry unless the LRU had to evict that one.
C15_Separate(v, w) ==
    LET kv == KeyOf(CallNamed(<<"x">>, v))
        kw == KeyOf(CallNamed(<<"x">>, w))
    IN  (~ignore_kwargs /\ v # w /\ Live(cache, kv) /\ kw \notin Keys(cache)
            /\ wrapper(CallNamed(<<"x">>, w), FALSE)) =>
            /\ kw \in Keys(cache')
            /\ tasks'[EntryOf(cache', kw).task] = NewTask(kw)
            /\ (strategy = "lru" /\ Len(cache) = maxsize) \/ kv \in Keys(cache')
            /\ kv \in Keys(cache') =>
                  EntryOf(cache', kv).task # EntryOf(cache', kw).task

\* C15: two calls with the same positional arguments that differ in the
\* value of a named argument that is not ignored derive different keys and
\* trigger two separate executions, each cached under its own key.
C15_KeyDistinctness ==
    /\ []C15_KeysDiffer
    /\ [][\A v, w \in XValues : C15_Separate(v, w)]_vars

\* The entries of f(1, x='a') and f(1, x='b') side by side, each with its
\* own task.
C15_Witness ==
    /\ ~ignore_kwargs
    /\ \A v \in XValues : KeyOf(CallNamed(<<"x">>, v)) \in Keys(cache)
    /\ \A v, w \in XValues :
          v # w => EntryOf(cache, KeyOf(CallNamed(<<"x">>, v))).task
                       # EntryOf(cache, KeyOf(CallNamed(<<"x">>, w))).task

\* ---------------------------------------------------------------------- C16
\* The mapping holds at most one entry per key.
C16_OneEntryPerKey ==
    \A i, j \in 1..Len(cache) : i # j => cache[i].key # cache[j].key

\* A step that gives a key of the mapping another entry or another
\* execution is a lookup that removed the key's entry for its age before
\* it inserted: in every other case the key is absent in between.
C16_Replaced(key) ==
    (/\ key \in Keys(cache)
     /\ key \in Keys(cache')
     /\ \/ EntryOf(cache', key) # EntryOf(cache, key)
        \/ /\ tasks[EntryOf(cache, key).task].state = "finished"
           /\ tasks'[EntryOf(cache', key).task].state = "pending")
    => /\ strategy = "timed"
       /\ now > EntryOf(cache, key).t + maxsize
       /\ EntryOf(cache', key).t = now
       /\ tasks'[EntryOf(cache', key).task] = NewTask(key)

\* C16: in every reachable state, under every strategy, the mapping holds at
\* most one entry per derived key; a key's handle is replaced only through
\* removal (invalidate, eviction or expiry) followed by re-insertion.
C16_OneHandlePerKey ==
    /\ []C16_OneEntryPerKey
    /\ [][\A call \in Calls : C16_Replaced(KeyOf(call))]_vars

\* A pending execution whose key was removed and then inserted again with
\* another task, the only entry of the key.
C16_Witness ==
    /\ cache # <<>>
    /\ \E u \in Handles :
          /\ Pending(u)
          /\ u \notin TasksIn(cache)
          /\ tasks[u].key \in Keys(cache)

\* ---------------------------------------------------------------------- C17
\* Under the raw and timed strategies get_stats returns 0, 0 whatever the
\* mapping has been through; under lru it returns the counters of the LRU,
\* which show a miss as soon as an entry has been stored.
C17_Reported ==
    /\ strategy \in {"raw", "timed"} => _stats(stats) = <<0, 0>>
    /\ strategy = "lru" =>
          /\ _stats(stats) = stats
          /\ cache # <<>> => _stats(stats)[2] >= 1

\* Under lru an invoke that finds its key counts a hit and one that does not
\* counts a miss, up to the value at which the counters stop.
C17_Counted(call) ==
    (strategy = "lru" /\ wrapper(call, FALSE)) =>
        IF KeyOf(call) \in Keys(cache)
        THEN /\ _stats(stats')[1] = (IF stats[1] < MaxCount THEN stats[1] + 1 ELSE MaxCount)
             /\ _stats(stats')[2] = stats[2]
        ELSE /\ _stats(stats')[1] = stats[1]
             /\ _stats(stats')[2] = (IF stats[2] < MaxCount THEN stats[2] + 1 ELSE MaxCount)

\* C17: get_stats under the Unbounded and TimeWindowed strategies returns
\* (0, 0) after any sequence of invoke, invalidate and invalidateContaining,
\* however many hits and misses occurred; only BoundedLRU reports real
\* counters.
C17_Stats ==
    /\ []C17_Reported
    /\ [][\A call \in Calls : C17_Counted(call)]_vars

\* A mapping without counters that has stored two entries and lost one to
\* invalidate, and still reports 0, 0.
C17_Witness ==
    /\ strategy \in {"raw", "timed"}
    /\ cache # <<>>
    /\ \E t \in Handles : tasks[t].removed_by # ""
    /\ _stats(stats) = <<0, 0>>

\* ---------------------------------------------------------------------- C18
\* C18: a cache with a non-positive capacity (BoundedLRU) or a non-positive
\* ttl (TimeWindowed) is rejected when it is constructed, so no cache with
\* such a capacity or ttl is ever reachable.
C18_PositiveConfiguration ==
    strategy \in {"lru", "timed"} => maxsize > 0

\* ---------------------------------------------------------------------- C19
\* Under raw an invoke that finds its key leaves the mapping as it is, and
\* one that does not adds one entry behind all the others.
C19_Invoke(call) ==
    (strategy = "raw" /\ wrapper(call, FALSE)) =>
        IF KeyOf(call) \in Keys(cache)
        THEN cache' = cache
        ELSE /\ Len(cache') = Len(cache) + 1
             /\ SubSeq(cache', 1, Len(cache)) = cache
             /\ cache'[Len(cache')].key = KeyOf(call)

\* Under raw a step after which a key is gone is an invalidate or an
\* invalidate_containing.
C19_Removal ==
    (strategy = "raw" /\ ~(Keys(cache) \subseteq Keys(cache'))) =>
        \/ \E call \in Calls : _invalidate(call)
        \/ \E sub \in Substrings : _invalidate_containing(sub)

\* C19: under the Unbounded strategy no entry is ever removed automatically:
\* an entry leaves the mapping only through invalidate or
\* invalidateContaining, and the number of entries never decreases across
\* invoke calls (a miss adds exactly one entry, a hit changes nothing).
C19_RawNeverEvicts ==
    [][C19_Removal /\ \A call \in Calls : C19_Invoke(call)]_vars

\* A raw mapping that holds as many entries as tasks can exist, all finished.
C19_Witness ==
    /\ strategy = "raw"
    /\ Len(cache) = MaxTasks
    /\ \A i \in 1..Len(cache) : tasks[cache[i].task].state = "finished"

\* ---------------------------------------------------------------------- C20
\* C20: for every namespace and resource id at most one body of a function
\* decorated with lock(namespace, resource_id) is executing at any instant,
\* whichever functions and calls resolve to that namespace and id and also
\* when the id comes from an awaitable; the lock of a key is held exactly
\* while a body of that key is executing.
C20_MutualExclusion ==
    /\ \A p, q \in Coros :
          (p # q /\ coros[p].pc = "body" /\ coros[q].pc = "body")
              => LockKey(coros[p].ns, coros[p].id) # LockKey(coros[q].ns, coros[q].id)
    /\ \A k \in LockKeys :
          lock_dicts[k].locked <=>
              \E p \in Coros : coros[p].pc = "body" /\ LockKey(coros[p].ns, coros[p].id) = k

\* Two bodies with the same id in different namespaces execute at once while
\* a third call waits for the lock one of them holds.
C20_Witness ==
    \E p, q, r \in Coros :
        /\ coros[p].pc = "body" /\ coros[q].pc = "body"
        /\ coros[p].id = coros[q].id
        /\ coros[p].ns # coros[q].ns
        /\ coros[r].pc = "waiting"
        /\ LockKey(coros[r].ns, coros[r].id) = LockKey(coros[p].ns, coros[p].id)

\* ---------------------------------------------------------------------- C21
\* C21: a call with wait=False that finds the lock of its namespace and id
\* held by another call does not run the body: it ends at once, with None,
\* or with the LockedResourceError of that namespace and id when
\* raise_error is set, and the step changes neither the locks nor any other
\* call.
C21_NonWaitingGivesUp ==
    [][\A p \in Coros :
          (coros[p].pc \in {"idle", "resolving"} /\ coros'[p] # coros[p]) =>
              \A ns \in Namespaces, id \in ResourceIds, raise_error \in BOOLEAN :
                  ( /\ lock_dicts[LockKey(ns, id)].present
                    /\ lock_dicts[LockKey(ns, id)].locked
                    /\ \/ lock_wrapper(p, ns, id, FALSE, raise_error)
                       \/ /\ coros[p].ns = ns
                          /\ coros[p].id = id
                          /\ ResolveId(p, FALSE, raise_error) )
                  => /\ coros'[p] = Idle(IF raise_error THEN LockedResourceError(ns, id)
                                         ELSE Ended("None"))
                     /\ lock_dicts' = lock_dicts
                     /\ \A q \in Coros \ {p} : coros'[q] = coros[q]]_vars

\* While one call executes its body, a second call on the same namespace
\* and id has ended with the LockedResourceError of that resource and a
\* third call has ended with None.
C21_Witness ==
    \E p, q, r \in Coros :
        /\ coros[q].pc = "body"
        /\ lock_dicts[LockKey(coros[q].ns, coros[q].id)].locked
        /\ coros[p] = Idle(LockedResourceError(coros[q].ns, coros[q].id))
        /\ coros[r] = Idle(Ended("None"))

\* ---------------------------------------------------------------------- C28
\* C28: a call with wait=False that finds the lock of its namespace and id
\* not held takes it in the same step and is inside the body when the step
\* ends, also when calls with wait=True are still queued on a lock that was
\* released and not yet handed to the first of them.
C28_NonWaitingNeverSuspends ==
    [][\A p \in Coros :
          coros'[p] # coros[p] =>
              \A ns \in Namespaces, id \in ResourceIds, raise_error \in BOOLEAN :
                  ( /\ ~lock_dicts[LockKey(ns, id)].locked
                    /\ \/ lock_wrapper(p, ns, id, FALSE, raise_error)
                       \/ /\ coros[p].ns = ns
                          /\ coros[p].id = id
                          /\ ResolveId(p, FALSE, raise_error) )
                  => coros'[p].pc = "body"]_vars

\* ---------------------------------------------------------------------- C23
\* C23: under the LRU strategy the mapping never holds more entries than
\* its capacity, whatever invokes and invalidations have happened, and an
\* invoke removes at most one entry that was there before it.
C23_CapacityBound ==
    /\ [](strategy = "lru" => Len(cache) <= maxsize)
    /\ [][\A call \in Calls :
             (strategy = "lru" /\ wrapper(call, FALSE)) =>
                 Cardinality(Keys(cache) \ Keys(cache')) <= 1]_vars

\* A full LRU next to an execution that is still pending and that no
\* invalidation removed: its entry was evicted for the capacity.
C23_Witness ==
    /\ strategy = "lru"
    /\ Len(cache) = maxsize
    /\ \E t \in Handles :
          /\ Pending(t)
          /\ tasks[t].removed_by = ""
          /\ tasks[t].key \notin Keys(cache)

\* ---------------------------------------------------------------------- C24
\* C24: under the timed strategy no step changes the stamp of an entry that
\* stays in the mapping, however often the key is looked up; a key has a new
\* stamp after a step only when its old entry had expired and was purged in
\* that step, and the new stamp is the current time.
C24_Step(key) ==
    (key \in Keys(cache) /\ key \in Keys(cache')) =>
        \/ EntryOf(cache', key) = EntryOf(cache, key)
        \/ /\ Expired(EntryOf(cache, key), now)
           /\ EntryOf(cache', key).t = now

C24_NoSlidingExpiry ==
    [][strategy = "timed" => \A call \in CallerCalls : C24_Step(KeyOf(call))]_vars

\* An entry that was inserted before the current time and has not expired,
\* with the caller that inserted it and a caller that found it waiting.
C24_Witness ==
    /\ strategy = "timed"
    /\ \E i \in 1..Len(cache) :
          /\ cache[i].t < now
          /\ ~Expired(cache[i], now)
          /\ tasks[cache[i].task].waiters = 2

\* ---------------------------------------------------------------------- C25
\* With ignore_kwargs every call f(1, ...) derives the key of f(1), the
\* function name and the positional arguments, whatever its keywords are;
\* without it the keywords that are not skipped follow in call order.
C25_Keys ==
    LET key1 == FuncName \o <<":", "1">>
        xa == <<":", "'", "x", "'", ":", "'", "a", "'">>
        yb == <<":", "'", "y", "'", ":", "'", "b", "'">>
        a == StrVal(<<"a">>)
        b == StrVal(<<"b">>)
    IN  /\ ignore_kwargs =>
              /\ \A v \in XValues : KeyOf(CallNamed(<<"x">>, v)) = key1
              /\ KeyOf(CallNamed2(<<"x">>, a, <<"y">>, b)) = key1
              /\ KeyOf(Call(<<IntVal(<<"1">>)>>, <<>>)) = key1
        /\ ~ignore_kwargs =>
              /\ KeyOf(CallNamed2(<<"x">>, a, <<"y">>, b)) = key1 \o xa \o yb
              /\ KeyOf(CallNamed2(<<"y">>, b, <<"x">>, a)) = key1 \o yb \o xa
              /\ KeyOf(CallNamed2(<<"p","o","o","l">>, b, <<"x">>, a)) = key1 \o xa

\* With ignore_kwargs a call f(1, x=w) made while the mapping holds the
\* live entry of a call f(1, ...) returns that entry's task and starts
\* nothing.
C25_Coalesces(w) ==
    LET key == FuncName \o <<":", "1">>
        h == EntryOf(cache, key).task
    IN  (ignore_kwargs /\ Live(cache, key) /\ wrapper(CallNamed(<<"x">>, w), FALSE)) =>
            /\ cache' = getitem(cache, key)
            /\ EntryOf(cache', key).task = h
            /\ tasks'[h] = tasks[h]
            /\ \A t \in Handles : tasks[t].state = "free" => tasks'[t].state = "free"

\* C25: with ignore_kwargs the key is the function name and the positional
\* arguments only, so two calls with equal positional and different named
\* arguments derive one key and the second returns the task of the first;
\* without ignore_kwargs the named arguments that are not skipped are
\* appended in call order.
C25_IgnoreKwargs ==
    /\ []C25_Keys
    /\ [][\A w \in XValues : C25_Coalesces(w)]_vars

\* An LRU with ignore_kwargs that counted a hit and holds the entry of
\* f(1) alone, with room left: every call so far derived that key.
C25_Witness ==
    /\ ignore_kwargs
    /\ strategy = "lru"
    /\ maxsize = 2
    /\ Len(cache) = 1
    /\ cache[1].key = FuncName \o <<":", "1">>
    /\ stats[1] >= 1

\* ---------------------------------------------------------------------- C26
\* C26 as stated: capacity eviction and ttl expiry never remove the entry
\* of an execution that is still in flight, so an execution that is pending
\* and was not invalidated has its entry in the mapping.
C26_InFlightEntriesStay ==
    \A t \in Handles :
        (Pending(t) /\ tasks[t].removed_by = "") => t \in TasksIn(cache)

\* Without automatic eviction there is no second execution of a key next to
\* one that was not invalidated.
C26_RawSingleFlight ==
    strategy = "raw" =>
        \A t, u \in Handles :
            (t # u /\ Pending(t) /\ Pending(u) /\ tasks[t].key = tasks[u].key)
                => (tasks[t].removed_by # "" /\ tasks[u].removed_by # "")
                   \/ (tasks[t].removed_by # "" /\ u \in TasksIn(cache))
                   \/ (tasks[u].removed_by # "" /\ t \in TasksIn(cache))

\* An invoke that starts an execution of a key while execution t of that
\* key is pending and was not invalidated: the LRU had evicted the entry of
\* t, or the entry of t had grown older than the ttl.
C26_StartsSecond(call, t) ==
    ( /\ Pending(t)
      /\ tasks[t].removed_by = ""
      /\ tasks[t].key = KeyOf(call)
      /\ \E u \in Handles \ {t} :
            tasks'[u] = NewTask(KeyOf(call)) /\ tasks[u] # tasks'[u]
      /\ wrapper(call, FALSE) )
    => \/ strategy = "lru" /\ t \notin TasksIn(cache)
       \/ /\ strategy = "timed"
          /\ \/ t \notin TasksIn(cache)
             \/ Expired(EntryOf(cache, KeyOf(call)), now)

\* C26 as amended: capacity eviction and ttl expiry remove an entry whether
\* or not its execution is in flight; with invalidate and
\* invalidateContaining not called, a second execution of a key starts next
\* to a running one only after the LRU evicted the first one's entry or the
\* entry grew older than the ttl, and never under the raw strategy.
C26_SingleFlightUntilEvicted ==
    /\ []C26_RawSingleFlight
    /\ [][\A call \in Calls, t \in Handles : C26_StartsSecond(call, t)]_vars

\* Two executions of one key in flight, neither invalidated: the entry of
\* one was removed automatically and the other is in the mapping.
C26_Witness ==
    \E t, u \in Handles :
        /\ t # u
        /\ Pending(t) /\ Pending(u)
        /\ tasks[t].key = tasks[u].key
        /\ tasks[t].removed_by = "" /\ tasks[u].removed_by = ""
        /\ t \in TasksIn(cache)
        /\ u \notin TasksIn(cache)

\* ---------------------------------------------------------------------- C27
\* The two calls of the claim next to the argument 1: f(1, 'x', 'a') passes
\* the name and the value as positional arguments, f(1, x='a') as the one
\* keyword.
C27_Positional == Call(<<IntVal(<<"1">>), StrVal(<<"x">>), StrVal(<<"a">>)>>, <<>>)
C27_Named == CallNamed(<<"x">>, StrVal(<<"a">>))

\* C27: two calls derive the same key only if their positional arguments
\* and their named arguments that are not skipped have the same
\* representations, so f(1, 'x', 'a') and f(1, x='a') derive different
\* keys and the one call never returns the task of the other.
C27_PositionalAndNamedApart ==
    [][(~ignore_kwargs /\ wrapper(C27_Named, FALSE)
          /\ tasks = [t \in Handles |-> IF t = 1 THEN NewTask(KeyOf(C27_Positional))
                                        ELSE NoTask])
       => /\ KeyOf(C27_Named) # KeyOf(C27_Positional)
          /\ tasks' # tasks]_vars

\* ---------------------------------------------------------------------- C22
\* The event is set exactly when no holder is active, the count is the
\* number of blocks the holders are inside and so never negative, and a
\* coroutine is blocked in wait() only while the event is clear.
C22_EventIffNoHolder ==
    /\ shared_event._event <=> shared_event._active_count = 0
    /\ shared_event._active_count = Sum(event_users.holders, Holders)
    /\ shared_event._active_count >= 0
    /\ (\E w \in EventWaiters : event_users.waiters[w] = "waiting")
          => ~shared_event._event

\* wait() called while a holder is active blocks; the exit of the last
\* holder, with or without an exception, sets the event and leaves no
\* coroutine blocked; the exit of any other holder releases nobody.
C22_Steps ==
    /\ \A w \in EventWaiters :
          (shared_event._active_count > 0 /\ SharedEvent_wait(w))
              => event_users'.waiters[w] = "waiting"
    /\ \A h \in Holders, exc \in BOOLEAN :
          HolderExits(h, exc) =>
              IF shared_event._active_count = 1
              THEN /\ shared_event'._event
                   /\ \A w \in EventWaiters : event_users'.waiters[w] # "waiting"
              ELSE event_users'.waiters = event_users.waiters

\* C22: the internal event of a SharedEvent is set exactly when the count
\* of active holders is 0; while a holder is inside the context manager the
\* event is clear and wait() blocks, and when the last holder exits,
\* normally or with an exception, the event is set and all waiters are
\* released; nested and interleaved holders keep the count non-negative.
C22_SharedEvent ==
    /\ []C22_EventIffNoHolder
    /\ [][C22_Steps]_vars

\* The last holder has left and a coroutine that was blocked in wait() is
\* released, while another holder has entered since.
C22_Witness ==
    /\ shared_event._active_count = 1
    /\ \E w, x \in EventWaiters :
          /\ event_users.waiters[w] = "released"
          /\ event_users.waiters[x] = "waiting"

\* ---------------------------------------------------------------------- C30
\* C30: for every source date and target weekday resolve_previous_weekday
\* returns a date that falls on target and is not later than source: source
\* itself when source falls on target and current_week_included is set,
\* else the closest earlier date on that weekday, 1 to 7 days before source.
C30_PreviousWeekday ==
    previous_weekday.pc = "returned" =>
        LET source == previous_weekday.source
            target == previous_weekday.target
            result == previous_weekday.result
        IN  /\ weekday(result) = target
            /\ result <= source
            /\ IF weekday(source) = target /\ previous_weekday.current_week_included
               THEN result = source
               ELSE result \in (source - 7)..(source - 1)

\* ---------------------------------------------------------------------- C29
\* C29: once put(key, value) has completed, and as long as no other put or
\* remove of that key has been called, get(key) returns value and the file
\* holds the entry, whatever calls of put, remove and save were interleaved
\* and whether or not the Config was constructed with load_later.
C29_NoLostWrite ==
    \A c \in ConfigCallers :
        LET call == config_calls[c]
        IN  ( /\ call.pc = "done"
              /\ call.op = "put"
              /\ \A d \in ConfigCallers \ {c} :
                    ~(config_calls[d].op \in {"put", "remove"}
                        /\ config_calls[d].key = call.key) )
            => /\ get(config._db, call.key) = call.value
               /\ config_file.exists
               /\ from_json(config_file)[call.key] = call.value

====
